---- MODULE Spec2Model ----
(***************************************************************************)
(* better-db: the schema registry and its plugin merge (defineDb / use),   *)
(* the auth-table filters of the CLI, and the migrate command.             *)
(***************************************************************************)
EXTENDS Integers, Sequences, FiniteSets, TLC

VARIABLES
    \* ---- schema registry (core/src/plugin.ts, core/src/define-db.ts) ----
    schemas,     \* heap of schema objects: schema id -> [table key -> table object id]
    tables,      \* heap of table objects: table object id -> [modelName, fields]
    registries,  \* the DefineDbResultImpl objects: plugin path -> [schema, plugins]
    plugins,     \* the DbPlugin objects: plugin index -> [name, schema]
    \* ---- auth-table filters (cli/src/utils/filter-auth-tables.ts) ----
    orm,         \* the orm argument of filterAuthTables
    blocks,      \* the declarations the input text is made of, in order
    code,        \* the code argument: the lines of the input text
    keptLines,   \* the indexes of the input lines pushed to filteredLines
    output,      \* the lines of the returned text
    fpc,         \* "idle", "call" (arguments given) or "done" (returned)
    \* ---- migrate command (cli/src/commands/migrate.ts) ----
    options,     \* MigrateOptions: [output, yes, filterAuth, databaseUrl]
    envUrl,      \* process.env.DATABASE_URL ("" when unset)
    mpc,         \* the statement migrateAction is at
    cleanup,     \* the local cleanup: "null" or "set"
    conn,        \* the database connection: [state, type]
    live,        \* the live store: table name -> set of its columns
    migrations,  \* the statements getMigrations prepared (its closure)
    toBeCreated, \* the local toBeCreated: table names
    toBeAdded,   \* the local toBeAdded: table names
    sql,         \* the local sql: lines of text
    outFile,     \* the file at outputPath: [exists, content]
    exitCode,    \* exit code of the process, -1 while it runs
    calls,       \* the calls made so far: [op, conn, ok] in order
    liveBefore,  \* the live store when the command started
    fileBefore,  \* the file at outputPath when the command started
    \* ---- generate command (cli/src/commands/generate.ts) ----
    generateOptions, \* the command line: [orm, yes, filterAuth, databaseUrl]
    gpc,             \* the statement generateAction is at
    connectionPool,  \* the local connectionPool: "null" or "set"
    result,          \* the local result: [code, overwrite]
    \* ---- generate command that forwards to the Better Auth CLI ----
    runOptions,  \* per run: [config, exists, execOk], the options and what the
                 \* run finds: the schema file exists, the forwarded CLI works
    rpc,         \* per run: the statement generateAction is at
    tempConfig,  \* the file .better-db-temp-auth.js of the working directory:
                 \* the schema path its text requires, "" when there is no file
    generatedFrom, \* per run: the schema the forwarded CLI generated from
    runExit,     \* per run: exit code of the process, -1 while it runs
    \* ---- table() ----
    revision,      \* the revision of table.ts that is built
    fieldBuilders, \* what the builder callback returned: the declared fields
                   \* in order, each [name, builder]
    tpc,           \* "idle", "table", "returned" or "threw"
    dbTable        \* the DbTable returned: [modelName, fields]

mergeVars == <<schemas, tables, registries, plugins>>

filterVars == <<orm, blocks, code, keptLines, output, fpc>>

migrateVars == <<options, envUrl, mpc, cleanup, conn, live, migrations,
                 toBeCreated, toBeAdded, sql, outFile, exitCode, calls>>

\* what a command starts from
startVars == <<liveBefore, fileBefore>>

\* the locals of migrateAction
migrateLocals == <<options, mpc, cleanup, migrations, toBeCreated, toBeAdded, sql>>

generateVars == <<generateOptions, gpc, connectionPool, result>>

forwardVars == <<runOptions, rpc, tempConfig, generatedFrom, runExit>>

tableVars == <<revision, fieldBuilders, tpc, dbTable>>

vars == <<schemas, tables, registries, plugins,
          orm, blocks, code, keptLines, output, fpc,
          options, envUrl, mpc, cleanup, conn, live, migrations,
          toBeCreated, toBeAdded, sql, outFile, exitCode, calls,
          liveBefore, fileBefore, generateOptions, gpc, connectionPool, result,
          runOptions, rpc, tempConfig, generatedFrom, runExit,
          revision, fieldBuilders, tpc, dbTable>>

\* no migrate command is running
MigrateIdle ==
    /\ options = <<>>
    /\ envUrl = ""
    /\ mpc = "idle"
    /\ cleanup = "null"
    /\ conn = <<>>
    /\ live = <<>>
    /\ migrations = <<>>
    /\ toBeCreated = {}
    /\ toBeAdded = {}
    /\ sql = <<>>
    /\ outFile = <<>>
    /\ exitCode = -1
    /\ calls = <<>>
    /\ liveBefore = <<>>
    /\ fileBefore = <<>>

\* no generate command is running
GenerateIdle ==
    /\ generateOptions = <<>>
    /\ gpc = "idle"
    /\ connectionPool = "null"
    /\ result = <<>>
    /\ runOptions = <<>>
    /\ rpc = <<>>
    /\ tempConfig = ""
    /\ generatedFrom = <<>>
    /\ runExit = <<>>

\* no filter call is in progress
FilterIdle ==
    /\ orm = "none"
    /\ blocks = <<>>
    /\ code = <<>>
    /\ keptLines = <<>>
    /\ output = <<>>
    /\ fpc = "idle"

\* table() is not being called
TableIdle ==
    /\ revision = 0
    /\ fieldBuilders = <<>>
    /\ tpc = "idle"
    /\ dbTable = <<>>

\* no registry has been defined
MergeIdle ==
    /\ schemas = <<>>
    /\ tables = <<>>
    /\ registries = <<>>
    /\ plugins = <<>>

(***************************************************************************)
(* Bounds                                                                  *)
(***************************************************************************)
\* longest chain of use() calls from the base registry
MaxDepth == 2
\* number of registries derived with use() in one run
MaxRegs == 4
\* concurrent invocations of the forwarding generate command
MaxRuns == 2
\* fields that a table declaration lists
MaxFields == 2

(***************************************************************************)
(* Schema values                                                           *)
(***************************************************************************)
TableKeys == {"post", "comment"}

Required == [type |-> "string", required |-> TRUE]
Optional == [type |-> "string", required |-> FALSE]
Counter  == [type |-> "number", required |-> TRUE]

Empty == [x \in {} |-> x]

\* field maps of the tables a base schema is drawn from
BaseFieldMaps ==
    { [f \in {"title"} |-> Required],
      [f \in {"title", "body"} |-> IF f = "title" THEN Optional ELSE Required],
      [f \in {"body"} |-> Counter] }

\* field maps of the tables a plugin is drawn from
PluginFieldMaps ==
    { [f \in {"title"} |-> Optional],
      [f \in {"title", "body"} |-> IF f = "title" THEN Counter ELSE Optional] }

\* all schema values (table key -> table value) over the given field maps
SchemaValues(maps) ==
    UNION { [ks -> maps] : ks \in SUBSET TableKeys }

BaseSchemas == SchemaValues(BaseFieldMaps)

PluginSchemas == SchemaValues(PluginFieldMaps) \ {Empty}

(***************************************************************************)
(* Object identities.  A schema object is named by the object that holds   *)
(* it (a registry, by its plugin path, or a plugin, by its index); a table *)
(* object by the schema object it was created for and its key.             *)
(***************************************************************************)
RegSid(path) == [owner |-> "registry", at |-> path]

PluginSid(p) == [owner |-> "plugin", at |-> <<p>>]

Tid(sid, key) == [of |-> sid, key |-> key]

\* the schema value a schema object denotes (getSchema() followed by a deep read)
Deep(sid) ==
    [k \in DOMAIN schemas[sid] |-> tables[schemas[sid][k]]]

\* the table objects reachable from a schema object
TableObjects(sid) == { schemas[sid][k] : k \in DOMAIN schemas[sid] }

(***************************************************************************)
(* DefineDbResultImpl.use                                                  *)
(***************************************************************************)
\* { ...mergedSchema[tableName].fields, ...table.fields }
BaseWinsFields(baseFields, pluginFields) ==
    [f \in DOMAIN baseFields \cup DOMAIN pluginFields |->
        IF f \in DOMAIN baseFields THEN baseFields[f] ELSE pluginFields[f]]

MergeFields(baseFields, pluginFields) ==
    [f \in DOMAIN baseFields \cup DOMAIN pluginFields |->
        IF f \in DOMAIN pluginFields THEN pluginFields[f] ELSE baseFields[f]]

\* const mergedSchema = { ...this.schema }: the keys the copy starts with
NoCopiedKeys(schemaMap) == {}

CopiedKeys(schemaMap) == DOMAIN schemaMap

\* the schema object that mergedSchema names
AliasedSchemaObject(r, p) == registries[r].schema

MergedSchemaObject(r, p) == RegSid(Append(r, p))

use(r, p) ==
    /\ r \in DOMAIN registries
    /\ p \in DOMAIN plugins
    /\ Len(r) < MaxDepth
    /\ Cardinality(DOMAIN registries) <= MaxRegs
    /\ Append(r, p) \notin DOMAIN registries
    /\ LET this     == registries[r]
           sid      == MergedSchemaObject(r, p)
           baseMap  == schemas[this.schema]
           plugMap  == schemas[plugins[p].schema]
           copied   == CopiedKeys(baseMap)
           both     == copied \cap DOMAIN plugMap
           merged   == [k \in copied \cup DOMAIN plugMap |->
                          IF k \in both THEN Tid(sid, k)
                          ELSE IF k \in DOMAIN plugMap THEN plugMap[k]
                          ELSE baseMap[k]]
           created  == [k \in both |->
                          [tables[baseMap[k]] EXCEPT
                             !.fields = MergeFields(tables[baseMap[k]].fields,
                                                    tables[plugMap[k]].fields)]]
       IN  /\ schemas' = [s \in DOMAIN schemas \cup {sid} |->
                            IF s = sid THEN merged ELSE schemas[s]]
           /\ tables' = [t \in DOMAIN tables \cup {Tid(sid, k) : k \in both} |->
                            IF t \in {Tid(sid, k) : k \in both}
                            THEN created[t.key] ELSE tables[t]]
           /\ registries' = [q \in DOMAIN registries \cup {Append(r, p)} |->
                            IF q = Append(r, p)
                            THEN [schema |-> sid, plugins |-> Append(this.plugins, p)]
                            ELSE registries[q]]
    /\ UNCHANGED plugins

Use == \E r \in DOMAIN registries : \E p \in DOMAIN plugins : use(r, p)

(***************************************************************************)
(* defineDb(schema) and createDbPlugin(name, schema): the state after the  *)
(* base registry and two plugins have been constructed                     *)
(***************************************************************************)
Objects(sid, value) == [k \in DOMAIN value |-> Tid(sid, k)]

InitMerge ==
    \E b \in BaseSchemas : \E s1 \in PluginSchemas : \E s2 \in PluginSchemas :
        LET val == [s \in {RegSid(<<>>), PluginSid(1), PluginSid(2)} |->
                       IF s = RegSid(<<>>) THEN b
                       ELSE IF s = PluginSid(1) THEN s1 ELSE s2]
            tids == UNION { {Tid(s, k) : k \in DOMAIN val[s]} : s \in DOMAIN val }
        IN  /\ schemas = [s \in DOMAIN val |-> Objects(s, val[s])]
            /\ tables = [t \in tids |->
                            [modelName |-> t.key, fields |-> val[t.of][t.key]]]
            /\ registries = [q \in {<<>>} |->
                            [schema |-> RegSid(<<>>), plugins |-> <<>>]]
            /\ plugins = [p \in {1, 2} |->
                            [name |-> p, schema |-> PluginSid(p)]]

\* the registries alone: no filter call and no migrate command
StartMerge == InitMerge /\ FilterIdle /\ MigrateIdle /\ GenerateIdle /\ TableIdle

SpecMerge ==
    StartMerge
        /\ [][Use /\ UNCHANGED <<filterVars, migrateVars, startVars, generateVars, forwardVars, tableVars>>]_vars

(***************************************************************************)
(* table(name, builder) and the field builders of field-builder.ts         *)
(***************************************************************************)
\* new FieldBuilderImpl(type)
FieldBuilderImpl(type) == [fieldType |-> type, config |-> [k \in {} |-> TRUE]]

\* this.config[key] = value
WithConfig(b, key, value) ==
    [b EXCEPT !.config = [k \in DOMAIN b.config \cup {key} |->
                            IF k = key THEN value ELSE b.config[k]]]

\* FieldBuilderImpl.id, .notNull, .unique, .primaryKey and .references
BuilderId(b) == WithConfig([b EXCEPT !.fieldType = "string"], "required", TRUE)

NotNull(b) == WithConfig(b, "required", TRUE)

Unique(b) == WithConfig(b, "unique", TRUE)

PrimaryKey(b) == WithConfig(WithConfig(b, "primaryKey", TRUE), "required", TRUE)

References(b, model) ==
    WithConfig(b, "references",
               [model |-> model, field |-> "id", onDelete |-> "cascade"])

\* _build(): { type: this.fieldType, ...this.config }
Build(b) ==
    [k \in {"type"} \cup DOMAIN b.config |->
        IF k = "type" THEN b.fieldType ELSE b.config[k]]

\* createFieldBuilderFactory().id()
FactoryId == BuilderId(FieldBuilderImpl("string"))

\* the builders a declaration gives a field
Builders ==
    { FactoryId,
      Unique(FactoryId),
      References(FactoryId, "user"),
      FieldBuilderImpl("string"),
      FieldBuilderImpl("boolean"),
      Unique(NotNull(FieldBuilderImpl("number"))) }

FieldNames == <<"id", "title", "authorId">>

\* the objects a builder callback returns: up to MaxFields fields with
\* different names, in the order the object literal lists them
Declarations ==
    UNION { { d \in [1..n -> [name : {FieldNames[i] : i \in 1..Len(FieldNames)},
                              builder : Builders]] :
                \A i, j \in 1..n : i # j => d[i].name # d[j].name } :
            n \in 0..MaxFields }

\* fieldBuilders.id
Declared(decl, name) == \E i \in 1..Len(decl) : decl[i].name = name

\* the builder stored for the identity field when none was declared
IdBuilder(rev) == IF rev = 3 THEN PrimaryKey(FactoryId) ELSE FactoryId

\* for (const [fieldName, fieldBuilder] of Object.entries(fieldBuilders))
\*     fields[fieldName] = fieldBuilder._build()
BuildAll(decl) ==
    [i \in 1..Len(decl) |-> [name |-> decl[i].name, attr |-> Build(decl[i].builder)]]

\* the fields of the table returned, in insertion order.  Revision 1 starts
\* with the literal { id: { type: "string", required: true } }; revisions 2
\* and 3 store the builder of the identity field in the object the callback
\* returned, after the keys it has.
TableFields(rev, decl) ==
    IF rev = 1
    THEN <<[name |-> "id", attr |-> [type |-> "string", required |-> TRUE]]>>
            \o BuildAll(decl)
    ELSE IF Declared(decl, "id") THEN BuildAll(decl)
    ELSE BuildAll(Append(decl, [name |-> "id", builder |-> IdBuilder(rev)]))

\* if (fieldBuilders.id) throw new Error(...), in revision 1 only
Throws(rev, decl) == rev = 1 /\ Declared(decl, "id")

InitTable ==
    /\ revision \in {1, 2, 3}
    /\ fieldBuilders \in Declarations
    /\ tpc = "table"
    /\ dbTable = <<>>

table ==
    /\ tpc = "table"
    /\ IF Throws(revision, fieldBuilders)
       THEN /\ tpc' = "threw"
            /\ dbTable' = dbTable
       ELSE /\ tpc' = "returned"
            /\ dbTable' = [modelName |-> "post",
                           fields |-> TableFields(revision, fieldBuilders)]
    /\ UNCHANGED <<revision, fieldBuilders>>

StartTable ==
    /\ InitTable
    /\ MergeIdle
    /\ FilterIdle
    /\ MigrateIdle
    /\ GenerateIdle

SpecTable ==
    StartTable
        /\ [][table /\ UNCHANGED <<mergeVars, filterVars, migrateVars, startVars,
                                   generateVars, forwardVars>>]_vars

(***************************************************************************)
(* Texts.  A text is a sequence of lines and a line a sequence of tokens   *)
(* that single blanks separate; INDENT is the white space a line of a      *)
(* declaration's body starts with.  The operators below give, for the      *)
(* tokens of the texts, what the filters' string functions and regular     *)
(* expressions compute from their characters.                              *)
(***************************************************************************)
INDENT == "  "

\* String.prototype.toLowerCase
ToLowerCase(w) ==
    CASE w \in {"User", "USER", "user"} -> "user"
      [] w \in {"Session", "session"} -> "session"
      [] w \in {"Account", "account"} -> "account"
      [] w \in {"Verification", "verification"} -> "verification"
      [] w \in {"RateLimit", "rateLimit", "ratelimit"} -> "ratelimit"
      [] w \in {"Post", "post"} -> "post"
      [] w \in {"CREATE", "create"} -> "create"
      [] w \in {"ALTER", "alter"} -> "alter"
      [] w \in {"TABLE", "table"} -> "table"
      [] w \in {"REFERENCES", "references"} -> "references"
      [] OTHER -> w

\* the word (\w+) a token starts with, after an optional quote: ["`']?(\w+)
WordOf(tok) ==
    CASE tok \in {"user", "\"user\"", "user(id)", "user.id,"} -> "user"
      [] tok \in {"User", "\"User\""} -> "User"
      [] tok = "USER" -> "USER"
      [] tok \in {"post", "\"post\"", "post(id)", "post.id,"} -> "post"
      [] tok = "Post" -> "Post"
      [] OTHER -> ""

\* line.includes(sub), for the lower-case names the filters look for
TokenIncludes(tok, sub) ==
    CASE sub = "user" ->
            tok \in {"user", "userId", "userId:", "user_id", "[userId],",
                     "\"user\"", "user(id)", "user.id,", "text('user_id')"}
      [] sub = "post" ->
            tok \in {"post", "postId", "[postId],", "\"post\"", "post(id)",
                     "post.id,"}
      [] OTHER -> tok = sub

Includes(line, sub) == \E i \in 1..Len(line) : TokenIncludes(line[i], sub)

\* line.includes(";")
IncludesSemicolon(line) ==
    \E i \in 1..Len(line) : line[i] \in {"});", ");", "TEXT;", "TEXT);", "text);"}

RECURSIVE SumSeq(_)
SumSeq(ns) == IF ns = <<>> THEN 0 ELSE Head(ns) + SumSeq(Tail(ns))

\* "{" counted up and "}" counted down over the characters of a token
BraceDelta(tok) ==
    CASE tok = "{" -> 1
      [] tok \in {"}", "});", "}),"} -> -1
      [] OTHER -> 0

BraceCount(line) == SumSeq([i \in 1..Len(line) |-> BraceDelta(line[i])])

\* "(" counted up and ")" counted down over the characters of a token
ParenDelta(tok) ==
    CASE tok \in {"pgTable('t',", ".references(()", "("} -> 1
      [] tok \in {"});", "}),", ");", "TEXT);", "text);"} -> -1
      [] OTHER -> 0

ParenCount(line) == SumSeq([i \in 1..Len(line) |-> ParenDelta(line[i])])

\* the lines at the given indexes
Pick(lines, idx) == [n \in 1..Len(idx) |-> lines[idx[n]]]

\* a line of white space only
IsBlank(line) == \A i \in 1..Len(line) : line[i] = INDENT

RECURSIVE StripLeft(_)
StripLeft(line) ==
    IF line # <<>> /\ Head(line) = INDENT THEN StripLeft(Tail(line)) ELSE line

RECURSIVE TrimStart(_)
TrimStart(lines) ==
    IF lines = <<>> THEN <<>>
    ELSE IF IsBlank(Head(lines)) THEN TrimStart(Tail(lines))
    ELSE <<StripLeft(Head(lines))>> \o Tail(lines)

RECURSIVE TrimEnd(_)
TrimEnd(lines) ==
    IF lines = <<>> THEN <<>>
    ELSE IF IsBlank(lines[Len(lines)]) THEN TrimEnd(SubSeq(lines, 1, Len(lines) - 1))
    ELSE lines

\* String.prototype.trim on the joined text
Trim(lines) == TrimEnd(TrimStart(lines))

\* .replace(/\n{3,}/g, "\n\n"): two or more empty lines in a row become one
RECURSIVE CollapseNewlines(_)
CollapseNewlines(lines) ==
    IF Len(lines) < 2 THEN lines
    ELSE IF lines[1] = <<>> /\ lines[2] = <<>>
    THEN CollapseNewlines(Tail(lines))
    ELSE <<Head(lines)>> \o CollapseNewlines(Tail(lines))

(***************************************************************************)
(* filter-auth-tables.ts                                                   *)
(***************************************************************************)
\* the list without its first entry
AUTH_TABLES_WITHOUT_USER ==
    {"session", "account", "verification", "rateLimit", "ratelimit"}

DEFAULT_AUTH_TABLES ==
    {"user", "session", "account", "verification", "rateLimit", "ratelimit"}

DEFAULT_AUTH_MODELS ==
    {"User", "Session", "Account", "Verification", "RateLimit"}

\* line.match(/^model\s+(\w+)\s*{/)
ModelMatch(line) ==
    IF Len(line) >= 3 /\ line[1] = "model" /\ WordOf(line[2]) = line[2]
          /\ line[2] # "" /\ line[3] = "{"
    THEN line[2] ELSE ""

\* line.match(/@relation.*references:\s*\[(\w+)\]/)
RelationMatch(line) ==
    \E i \in 1..Len(line) : \E j \in (i + 1)..(Len(line) - 1) :
        /\ line[i] = "@relation(fields:"
        /\ line[j] = "references:"
        /\ line[j + 1] = "[id])"

RECURSIVE PrismaLoop(_, _, _, _, _)
PrismaLoop(lines, i, inAuthModel, bracketCount, kept) ==
    IF i > Len(lines) THEN kept
    ELSE
      LET line == lines[i] IN
      IF ModelMatch(line) # "" /\ ModelMatch(line) \in DEFAULT_AUTH_MODELS
      THEN PrismaLoop(lines, i + 1, TRUE, 1, kept)
      ELSE IF inAuthModel
      THEN LET count == bracketCount + BraceCount(line)
           IN  PrismaLoop(lines, i + 1, count # 0, count, kept)
      ELSE IF /\ RelationMatch(line)
              /\ i > 1
              /\ lines[i - 1] # <<>>
              /\ \E model \in DEFAULT_AUTH_MODELS :
                    Includes(lines[i - 1], ToLowerCase(model))
      THEN PrismaLoop(lines, i + 1, inAuthModel, bracketCount, kept)
      ELSE PrismaLoop(lines, i + 1, inAuthModel, bracketCount, Append(kept, i))

PrismaKept(lines) == PrismaLoop(lines, 1, FALSE, 0, <<>>)

filterPrismaAuthTables(lines) ==
    Trim(CollapseNewlines(Pick(lines, PrismaKept(lines))))

\* line.match(/export\s+const\s+(\w+)\s*=/)
TableMatch(line) ==
    IF \E i \in 1..(Len(line) - 3) :
          /\ line[i] = "export" /\ line[i + 1] = "const"
          /\ WordOf(line[i + 2]) = line[i + 2] /\ line[i + 2] # ""
          /\ line[i + 3] = "="
    THEN line[(CHOOSE i \in 1..(Len(line) - 3) :
                  /\ line[i] = "export" /\ line[i + 1] = "const"
                  /\ WordOf(line[i + 2]) = line[i + 2] /\ line[i + 2] # ""
                  /\ line[i + 3] = "=") + 2]
    ELSE ""

RECURSIVE DrizzleLoop(_, _, _, _, _)
DrizzleLoop(lines, i, inAuthTable, parenCount, kept) ==
    IF i > Len(lines) THEN kept
    ELSE
      LET line == lines[i]
          tableName == TableMatch(line)
          isAuth == /\ tableName # ""
                    /\ \/ ToLowerCase(tableName) \in DEFAULT_AUTH_TABLES
                       \/ \E model \in DEFAULT_AUTH_MODELS :
                             ToLowerCase(tableName) = ToLowerCase(model)
          inNow == inAuthTable \/ isAuth
          count == (IF isAuth THEN 0 ELSE parenCount) + ParenCount(line)
      IN  IF inNow
          THEN DrizzleLoop(lines, i + 1, ~(count = 0 /\ IncludesSemicolon(line)),
                           count, kept)
          ELSE DrizzleLoop(lines, i + 1, inAuthTable, parenCount, Append(kept, i))

DrizzleKept(lines) == DrizzleLoop(lines, 1, FALSE, 0, <<>>)

filterDrizzleAuthTables(lines) ==
    Trim(CollapseNewlines(Pick(lines, DrizzleKept(lines))))

\* the word captured after two keywords matched without regard to case:
\* /KEYWORD1\s+KEYWORD2\s+["`']?(\w+)["`']?/i
AfterKeywords(line, k1, k2) ==
    LET at == { i \in 1..(Len(line) - 2) :
                  /\ ToLowerCase(line[i]) = k1
                  /\ ToLowerCase(line[i + 1]) = k2
                  /\ WordOf(line[i + 2]) # "" }
    IN  IF at = {} THEN ""
        ELSE WordOf(line[(CHOOSE i \in at : \A j \in at : i <= j) + 2])

\* line.match(/CREATE\s+TABLE\s+(?:["`']?(\w+)["`']?)/i)
CreateMatch(line) == AfterKeywords(line, "create", "table")

\* line.match(/ALTER\s+TABLE\s+["`']?(\w+)["`']?/i)
AlterMatch(line) == AfterKeywords(line, "alter", "table")

\* line.match(/REFERENCES\s+["`']?(\w+)["`']?/i)
RefMatch(line) ==
    LET at == { i \in 1..(Len(line) - 1) :
                  ToLowerCase(line[i]) = "references" /\ WordOf(line[i + 1]) # "" }
    IN  IF at = {} THEN ""
        ELSE WordOf(line[(CHOOSE i \in at : \A j \in at : i <= j) + 1])

RECURSIVE KyselyLoop(_, _, _, _)
KyselyLoop(lines, i, inAuthTable, kept) ==
    IF i > Len(lines) THEN kept
    ELSE
      LET line == lines[i]
          created == CreateMatch(line)
          inNow == IF created # "" THEN FALSE ELSE inAuthTable
      IN  IF created # "" /\ ToLowerCase(created) \in DEFAULT_AUTH_TABLES
          THEN KyselyLoop(lines, i + 1, TRUE, kept)
          ELSE IF inNow
          THEN KyselyLoop(lines, i + 1, ~IncludesSemicolon(line), kept)
          ELSE IF /\ AlterMatch(line) # ""
                  /\ ToLowerCase(AlterMatch(line)) \in DEFAULT_AUTH_TABLES
          THEN KyselyLoop(lines, i + 1, inNow, kept)
          ELSE IF /\ RefMatch(line) # ""
                  /\ ToLowerCase(RefMatch(line)) \in DEFAULT_AUTH_TABLES
          THEN KyselyLoop(lines, i + 1, inNow, kept)
          ELSE KyselyLoop(lines, i + 1, inNow, Append(kept, i))

KyselyKept(lines) == KyselyLoop(lines, 1, FALSE, <<>>)

filterKyselyAuthTables(lines) == Trim(Pick(lines, KyselyKept(lines)))

(***************************************************************************)
(* The texts the filters are applied to: declarations in the layout the    *)
(* generators and the tests of the filters write them in                   *)
(***************************************************************************)
\* number of declarations in an input text
MaxBlocks == 2

Orms == {"prisma", "drizzle", "kysely"}

DeclaredNames(o) ==
    CASE o = "prisma" -> {"User", "user", "USER", "Post"}
      [] o = "drizzle" -> {"user", "User", "post"}
      [] o = "kysely" -> {"user", "\"User\"", "\"post\""}

Layouts(o) ==
    CASE o = "prisma" -> {"lines", "oneLine", "relation", "keyRelation",
                          "twoRelations"}
      [] o = "drizzle" -> {"lines", "oneLine", "relation"}
      [] o = "kysely" -> {"lines", "oneLine", "relation", "alter"}

PrismaBlock(name, layout) ==
    CASE layout = "lines" ->
            << <<"model", name, "{">>,
               <<INDENT, "id", "String", "@id">>,
               <<"}">> >>
      [] layout = "oneLine" ->
            << <<"model", name, "{", "id", "String", "@id", "}">> >>
      [] layout = "relation" ->
            << <<"model", name, "{">>,
               <<INDENT, "id", "String", "@id">>,
               <<INDENT, "authorId", "String">>,
               <<INDENT, "user", "User", "@relation(fields:", "[authorId],",
                 "references:", "[id])">>,
               <<"}">> >>
      [] layout = "keyRelation" ->
            << <<"model", name, "{">>,
               <<INDENT, "id", "String", "@id">>,
               <<INDENT, "userId", "String">>,
               <<INDENT, "user", "User", "@relation(fields:", "[userId],",
                 "references:", "[id])">>,
               <<"}">> >>
      [] layout = "twoRelations" ->
            << <<"model", name, "{">>,
               <<INDENT, "id", "String", "@id">>,
               <<INDENT, "userId", "String">>,
               <<INDENT, "post", "Post", "@relation(fields:", "[postId],",
                 "references:", "[id])">>,
               <<INDENT, "editor", "Post", "@relation(fields:", "[editorId],",
                 "references:", "[id])">>,
               <<"}">> >>

DrizzleBlock(name, layout) ==
    CASE layout = "lines" ->
            << <<"export", "const", name, "=", "pgTable('t',", "{">>,
               <<INDENT, "id:", "text('id').primaryKey(),">>,
               <<"});">> >>
      [] layout = "oneLine" ->
            << <<"export", "const", name, "=", "pgTable('t',", "{", "id:",
                 "text('id')", "});">> >>
      [] layout = "relation" ->
            << <<"export", "const", name, "=", "pgTable('t',", "{">>,
               <<INDENT, "id:", "text('id').primaryKey(),">>,
               <<INDENT, "userId:", "text('user_id')">>,
               <<INDENT, INDENT, ".references(()", "=>", "user.id,", "{",
                 "onDelete:", "'cascade'", "}),">>,
               <<"});">> >>

KyselyBlock(name, layout) ==
    CASE layout = "lines" ->
            << <<"CREATE", "TABLE", name, "(">>,
               <<INDENT, "id", "TEXT", "PRIMARY", "KEY">>,
               <<");">> >>
      [] layout = "oneLine" ->
            << <<"create", "table", name, "(id", "text);">> >>
      [] layout = "relation" ->
            << <<"CREATE", "TABLE", name, "(">>,
               <<INDENT, "id", "TEXT", "PRIMARY", "KEY,">>,
               <<INDENT, "user_id", "TEXT", "REFERENCES", "user(id)">>,
               <<");">> >>
      [] layout = "alter" ->
            << <<"ALTER", "TABLE", name, "ADD", "COLUMN", "title", "TEXT;">> >>

BlockLines(o, name, layout) ==
    CASE o = "prisma" -> PrismaBlock(name, layout)
      [] o = "drizzle" -> DrizzleBlock(name, layout)
      [] o = "kysely" -> KyselyBlock(name, layout)

\* the text of declarations ds, with gap empty lines between two of them
RECURSIVE TextOf(_, _, _)
TextOf(o, ds, gap) ==
    IF ds = <<>> THEN <<>>
    ELSE BlockLines(o, ds[1].name, ds[1].layout)
            \o (IF Len(ds) > 1 THEN [n \in 1..gap |-> <<>>] ELSE <<>>)
            \o TextOf(o, Tail(ds), gap)

\* the declarations with the indexes of their first and last line in the text
Placed(o, ds, gap) ==
    [n \in 1..Len(ds) |->
        LET before == Len(TextOf(o, SubSeq(ds, 1, n - 1), gap))
                         + (IF n > 1 THEN gap ELSE 0)
        IN  [name |-> ds[n].name, layout |-> ds[n].layout,
             first |-> before + 1,
             last |-> before + Len(BlockLines(o, ds[n].name, ds[n].layout))]]

InitFilter ==
    \E o \in Orms : \E n \in 1..MaxBlocks : \E gap \in {0, 1} :
        \E ds \in [1..n -> [name : DeclaredNames(o), layout : Layouts(o)]] :
            /\ orm = o
            /\ blocks = Placed(o, ds, gap)
            /\ code = TextOf(o, ds, gap)
            /\ keptLines = <<>>
            /\ output = <<>>
            /\ fpc = "call"

\* filterAuthTables(code, orm)
FilterPrisma ==
    /\ fpc = "call" /\ orm = "prisma"
    /\ keptLines' = PrismaKept(code)
    /\ output' = filterPrismaAuthTables(code)
    /\ fpc' = "done"
    /\ UNCHANGED <<orm, blocks, code>>

FilterDrizzle ==
    /\ fpc = "call" /\ orm = "drizzle"
    /\ keptLines' = DrizzleKept(code)
    /\ output' = filterDrizzleAuthTables(code)
    /\ fpc' = "done"
    /\ UNCHANGED <<orm, blocks, code>>

FilterKysely ==
    /\ fpc = "call" /\ orm = "kysely"
    /\ keptLines' = KyselyKept(code)
    /\ output' = filterKyselyAuthTables(code)
    /\ fpc' = "done"
    /\ UNCHANGED <<orm, blocks, code>>

filterAuthTables ==
    \/ FilterPrisma /\ UNCHANGED <<mergeVars, migrateVars, startVars, generateVars, forwardVars, tableVars>>
    \/ FilterDrizzle /\ UNCHANGED <<mergeVars, migrateVars, startVars, generateVars, forwardVars, tableVars>>
    \/ FilterKysely /\ UNCHANGED <<mergeVars, migrateVars, startVars, generateVars, forwardVars, tableVars>>

\* one call of a filter alone
StartFilter == InitFilter /\ MergeIdle /\ MigrateIdle /\ GenerateIdle /\ TableIdle

SpecFilter == StartFilter /\ [][filterAuthTables]_vars

(***************************************************************************)
(* The migrate command: migrateAction, with loadBetterDbSchema,            *)
(* createDatabaseConnection and the getMigrations of better-auth it calls  *)
(***************************************************************************)
\* the tables of the schema handed to getMigrations, in migration order
SchemaTables == <<"user", "post">>

\* the columns of every table of the schema
SchemaColumns == {"id", "name"}

\* a table of the live store that the schema does not have
Legacy == "legacy"

\* the live stores a run starts from: each schema table is absent, is complete
\* or lacks a column and has one the schema does not know; the legacy table
\* is there
LiveStores ==
    { [t \in {Legacy} \cup { SchemaTables[n] : n \in present \cup partial } |->
          IF t = Legacy THEN {"id", "old"}
          ELSE IF \E n \in partial : SchemaTables[n] = t THEN {"id", "extra"}
          ELSE SchemaColumns] :
        present \in SUBSET (1..Len(SchemaTables)),
        partial \in SUBSET (1..Len(SchemaTables)) }

\* the connection strings given with --database-url and in DATABASE_URL
FlagUrls == {"", "postgres://h/db", "sqlite:./dev.db", "mongodb://h/db"}

EnvUrls == {"", "mysql://h/db"}

\* databaseUrl.startsWith("postgres://") || startsWith("postgresql://"),
\* databaseUrl.startsWith("mysql://"), else the SQLite branch
BranchOf(databaseUrl) ==
    CASE databaseUrl \in {"postgres://h/db", "postgresql://h/db"} -> "postgres"
      [] databaseUrl = "mysql://h/db" -> "mysql"
      [] OTHER -> "sqlite"

Call(op, ok) == [op |-> op, conn |-> conn.state, ok |-> ok]

\* process.exit(1): the process ends at once, no finally block runs
Exit1(op) ==
    /\ mpc' = "exited"
    /\ exitCode' = 1
    /\ calls' = calls \o <<Call(op, FALSE), Call("process.exit", TRUE)>>

\* the name of a table as the compiled statements write it
Quoted(t) == IF t = "user" THEN "\"user\"" ELSE "\"post\""

\* getMigrations: the columns to add come first, then the tables to create
RECURSIVE Statements(_, _)
Statements(kind, n) ==
    IF n > Len(SchemaTables) THEN <<>>
    ELSE LET t == SchemaTables[n]
             wanted == IF kind = "alter"
                       THEN t \in DOMAIN live /\ ~(SchemaColumns \subseteq live[t])
                       ELSE t \notin DOMAIN live
         IN  (IF wanted THEN <<[kind |-> kind, table |-> t]>> ELSE <<>>)
                \o Statements(kind, n + 1)

\* a statement that rebuilt its table from the schema alone
Recreate(store, m) ==
    [t \in DOMAIN store \cup {m.table} |->
        IF t = m.table THEN SchemaColumns ELSE store[t]]

\* migration.execute() of one statement on the store: CREATE TABLE makes the
\* table with the columns of the schema, ALTER TABLE ADD COLUMN adds the
\* columns the table lacks
Execute(store, m) ==
    [t \in DOMAIN store \cup {m.table} |->
        IF t # m.table THEN store[t]
        ELSE IF t \in DOMAIN store THEN store[t] \cup SchemaColumns
        ELSE SchemaColumns]

RECURSIVE ExecuteAll(_, _)
ExecuteAll(store, ms) ==
    IF ms = <<>> THEN store ELSE ExecuteAll(Execute(store, Head(ms)), Tail(ms))

\* a batch that stops at the failing statement and keeps what it did
ApplyUntilFailure(store, ms, done) == ExecuteAll(store, SubSeq(ms, 1, done))

\* runMigrations() when `done` statements of the batch succeed: the batch is
\* atomic, a failing statement rolls back the ones before it
runMigrations(store, ms, done) ==
    IF done = Len(ms) THEN ExecuteAll(store, ms) ELSE store

\* compileMigrations: the statements compiled and joined by ";\n\n"
Compiled(ms) ==
    TextOf("kysely",
           [n \in 1..Len(ms) |->
               [name |-> Quoted(ms[n].table),
                layout |-> IF ms[n].kind = "alter" THEN "alter" ELSE "oneLine"]],
           1)

\* toBeCreated.filter / toBeAdded.filter of step 7
FilterAuth(names) ==
    { t \in names : ToLowerCase(t) \notin DEFAULT_AUTH_TABLES }

InitMigrate ==
    \E out \in BOOLEAN, yes \in BOOLEAN, filterAuth \in BOOLEAN,
       url \in FlagUrls, env \in EnvUrls, exists \in BOOLEAN, store \in LiveStores :
        /\ options = [output |-> out, yes |-> yes, filterAuth |-> filterAuth,
                      databaseUrl |-> url]
        /\ envUrl = env
        /\ mpc = "loadSchema"
        /\ cleanup = "null"
        /\ conn = [state |-> "none", type |-> "none"]
        /\ live = store
        /\ migrations = <<>>
        /\ toBeCreated = {}
        /\ toBeAdded = {}
        /\ sql = <<>>
        /\ outFile = [exists |-> exists,
                      content |-> IF exists THEN << <<"old">> >> ELSE <<>>]
        /\ exitCode = -1
        /\ calls = <<>>
        /\ liveBefore = store
        /\ fileBefore = outFile

\* 1. loadBetterDbSchema(schemaPath): exits when the file is missing, does
\*    not load or exports no defineDb() result
LoadSchema ==
    /\ mpc = "loadSchema"
    /\ \E loaded \in BOOLEAN :
          IF loaded
          THEN /\ mpc' = "databaseUrl"
               /\ calls' = Append(calls, Call("loadBetterDbSchema", TRUE))
               /\ UNCHANGED exitCode
          ELSE Exit1("loadBetterDbSchema")
    /\ UNCHANGED <<options, envUrl, cleanup, conn, live, migrations,
                   toBeCreated, toBeAdded, sql, outFile>>

\* a command that fell back to a database of its own
DefaultDatabaseUrl ==
    IF options.databaseUrl # "" THEN options.databaseUrl
    ELSE IF envUrl # "" THEN envUrl ELSE "sqlite:./dev.db"

\* 3. options.databaseUrl || process.env.DATABASE_URL, exit when there is none
DatabaseUrl ==
    IF options.databaseUrl # "" THEN options.databaseUrl ELSE envUrl

ResolveUrl ==
    /\ mpc = "databaseUrl"
    /\ IF DatabaseUrl = ""
       THEN Exit1("databaseUrl")
       ELSE /\ mpc' = "connect"
            /\ UNCHANGED <<exitCode, calls>>
    /\ UNCHANGED <<options, envUrl, cleanup, conn, live, migrations,
                   toBeCreated, toBeAdded, sql, outFile>>

\* a command that caught the error of the connection and went on
ContinueAfterConnectionError == "getMigrations"

\* where control goes when createDatabaseConnection throws: no catch of
\* migrateAction takes the error, so the finally block runs and it propagates
AfterConnectionError == "finally"

\* 4. createDatabaseConnection(databaseUrl): a connection and its cleanup,
\*    exit when the driver is missing, or the error of the driver rethrown
CreateConnection ==
    /\ mpc = "connect"
    /\ \E outcome \in {"ok", "ERR_MODULE_NOT_FOUND", "error"} :
          CASE outcome = "ok" ->
                 /\ conn' = [state |-> "open", type |-> BranchOf(DatabaseUrl)]
                 /\ cleanup' = "set"
                 /\ mpc' = "getMigrations"
                 /\ calls' = Append(calls, Call("createDatabaseConnection", TRUE))
                 /\ UNCHANGED exitCode
            [] outcome = "ERR_MODULE_NOT_FOUND" ->
                 /\ Exit1("createDatabaseConnection")
                 /\ UNCHANGED <<conn, cleanup>>
            [] outcome = "error" ->
                 /\ mpc' = AfterConnectionError
                 /\ exitCode' = 1
                 /\ calls' = Append(calls, Call("createDatabaseConnection", FALSE))
                 /\ UNCHANGED <<conn, cleanup>>
    /\ UNCHANGED <<options, envUrl, live, migrations, toBeCreated, toBeAdded,
                   sql, outFile>>

\* the tables the statements of one kind are about
TablesOf(ms, kind) == { ms[n].table : n \in { i \in 1..Len(ms) : ms[i].kind = kind } }

\* a check that lets every delta through
NeverUpToDate(created, added) == FALSE

\* 8. toBeCreated.length === 0 && toBeAdded.length === 0
UpToDate(created, added) == created = {} /\ added = {}

\* 6.-9. getMigrations(auth.options), then the filter of step 7, the check of
\*    step 8 and the branch to the output file, the prompt or the run
GetMigrations ==
    /\ mpc = "getMigrations"
    /\ \E prepared \in BOOLEAN :
          IF prepared
          THEN LET ms == Statements("alter", 1) \o Statements("create", 1)
                   created == IF options.filterAuth
                              THEN FilterAuth(TablesOf(ms, "create"))
                              ELSE TablesOf(ms, "create")
                   added == IF options.filterAuth
                            THEN FilterAuth(TablesOf(ms, "alter"))
                            ELSE TablesOf(ms, "alter")
               IN  /\ migrations' = ms
                   /\ toBeCreated' = created
                   /\ toBeAdded' = added
                   /\ calls' = Append(calls, Call("getMigrations", TRUE))
                   /\ IF UpToDate(created, added)
                      THEN mpc' = "finally" /\ exitCode' = 0
                      ELSE /\ mpc' = IF options.output THEN "access"
                                     ELSE IF ~options.yes THEN "confirm"
                                     ELSE "runMigrations"
                           /\ UNCHANGED exitCode
          ELSE /\ Exit1("getMigrations")
               /\ UNCHANGED <<migrations, toBeCreated, toBeAdded>>
    /\ UNCHANGED <<options, envUrl, cleanup, conn, live, sql, outFile>>

\* 9. fs.access(outputPath): ask before overwriting unless --yes
AccessOutput ==
    /\ mpc = "access"
    /\ mpc' = IF outFile.exists /\ ~options.yes THEN "overwrite" ELSE "compile"
    /\ UNCHANGED <<options, envUrl, cleanup, conn, live, migrations,
                   toBeCreated, toBeAdded, sql, outFile, exitCode, calls>>

\* prompts({ message: "File ... already exists. Overwrite?" })
OverwritePrompt ==
    /\ mpc = "overwrite"
    /\ \E continue \in BOOLEAN :
          /\ calls' = Append(calls, Call("prompts", continue))
          /\ IF continue
             THEN mpc' = "compile" /\ UNCHANGED exitCode
             ELSE mpc' = "finally" /\ exitCode' = 0
    /\ UNCHANGED <<options, envUrl, cleanup, conn, live, migrations,
                   toBeCreated, toBeAdded, sql, outFile>>

\* compileMigrations(), filterAuthTables(sql, "kysely") and the check that
\* something is left
CompileMigrations ==
    /\ mpc = "compile"
    /\ \E compiled \in BOOLEAN :
          IF compiled
          THEN LET text == IF options.filterAuth
                           THEN filterKyselyAuthTables(Compiled(migrations))
                           ELSE Compiled(migrations)
               IN  /\ sql' = text
                   /\ calls' = Append(calls, Call("compileMigrations", TRUE))
                   /\ IF options.filterAuth /\ (text = <<>> \/ text = << <<";">> >>)
                      THEN mpc' = "finally" /\ exitCode' = 0
                      ELSE mpc' = "writeFile" /\ UNCHANGED exitCode
          ELSE /\ Exit1("compileMigrations")
               /\ UNCHANGED sql
    /\ UNCHANGED <<options, envUrl, cleanup, conn, live, migrations,
                   toBeCreated, toBeAdded, outFile>>

\* a command that went on to apply what it had written
RunAfterOutput == "runMigrations"

\* where control goes after the SQL file was written: return (line 611)
AfterOutput == "finally"

\* fs.writeFile(outputPath, sql.trim(), "utf8")
WriteFile ==
    /\ mpc = "writeFile"
    /\ \E written \in BOOLEAN :
          IF written
          THEN /\ outFile' = [exists |-> TRUE, content |-> Trim(sql)]
               /\ calls' = Append(calls, Call("writeFile", TRUE))
               /\ mpc' = AfterOutput
               /\ exitCode' = 0
          ELSE /\ Exit1("writeFile")
               /\ UNCHANGED outFile
    /\ UNCHANGED <<options, envUrl, cleanup, conn, live, migrations,
                   toBeCreated, toBeAdded, sql>>

\* the run goes on after the prompt was declined
RunAfterDecline == "runMigrations"

\* if (!response.continue) { logger.warn("Cancelled."); return; }
AfterDecline == "finally"

\* 10. prompts({ message: "Run these migrations?" })
ConfirmPrompt ==
    /\ mpc = "confirm"
    /\ \E continue \in BOOLEAN :
          /\ calls' = Append(calls, Call("prompts", continue))
          /\ IF continue
             THEN mpc' = "runMigrations" /\ UNCHANGED exitCode
             ELSE mpc' = AfterDecline /\ exitCode' = 0
    /\ UNCHANGED <<options, envUrl, cleanup, conn, live, migrations,
                   toBeCreated, toBeAdded, sql, outFile>>

\* 11. runMigrations(): the prepared statements are applied; when one fails
\*     the error is logged and the process exits
RunMigrations ==
    /\ mpc = "runMigrations"
    /\ \E done \in 0..Len(migrations) :
          /\ live' = runMigrations(live, migrations, done)
          /\ IF done = Len(migrations)
             THEN /\ calls' = Append(calls, Call("runMigrations", TRUE))
                  /\ mpc' = "finally"
                  /\ exitCode' = 0
             ELSE Exit1("runMigrations")
    /\ UNCHANGED <<options, envUrl, cleanup, conn, migrations, toBeCreated,
                   toBeAdded, sql, outFile>>

\* 12. finally: if (cleanup) await cleanup().  pool.end() closes a Postgres
\*     or MySQL pool; the cleanup of a SQLite connection does nothing
Finally ==
    /\ mpc = "finally"
    /\ IF cleanup = "set"
       THEN /\ calls' = Append(calls, Call("cleanup", TRUE))
            /\ conn' = IF conn.type \in {"postgres", "mysql"}
                       THEN [conn EXCEPT !.state = "closed"]
                       ELSE conn
       ELSE UNCHANGED <<calls, conn>>
    /\ mpc' = IF exitCode = 0 THEN "returned" ELSE "rejected"
    /\ UNCHANGED <<options, envUrl, cleanup, live, migrations, toBeCreated,
                   toBeAdded, sql, outFile, exitCode>>

\* the steps of one run; they change no other part of the state
migrateAction ==
    \/ LoadSchema /\ UNCHANGED <<mergeVars, filterVars, startVars, generateVars, forwardVars, tableVars>>
    \/ ResolveUrl /\ UNCHANGED <<mergeVars, filterVars, startVars, generateVars, forwardVars, tableVars>>
    \/ CreateConnection /\ UNCHANGED <<mergeVars, filterVars, startVars, generateVars, forwardVars, tableVars>>
    \/ GetMigrations /\ UNCHANGED <<mergeVars, filterVars, startVars, generateVars, forwardVars, tableVars>>
    \/ AccessOutput /\ UNCHANGED <<mergeVars, filterVars, startVars, generateVars, forwardVars, tableVars>>
    \/ OverwritePrompt /\ UNCHANGED <<mergeVars, filterVars, startVars, generateVars, forwardVars, tableVars>>
    \/ CompileMigrations /\ UNCHANGED <<mergeVars, filterVars, startVars, generateVars, forwardVars, tableVars>>
    \/ WriteFile /\ UNCHANGED <<mergeVars, filterVars, startVars, generateVars, forwardVars, tableVars>>
    \/ ConfirmPrompt /\ UNCHANGED <<mergeVars, filterVars, startVars, generateVars, forwardVars, tableVars>>
    \/ RunMigrations /\ UNCHANGED <<mergeVars, filterVars, startVars, generateVars, forwardVars, tableVars>>
    \/ Finally /\ UNCHANGED <<mergeVars, filterVars, startVars, generateVars, forwardVars, tableVars>>

\* one run of the command alone
StartMigrate == InitMigrate /\ MergeIdle /\ FilterIdle /\ GenerateIdle /\ TableIdle

SpecMigrate == StartMigrate /\ [][migrateAction]_vars

(***************************************************************************)
(* The generate command: generateAction, with the generators it calls      *)
(***************************************************************************)
\* the value of DATABASE_URL a generate run finds
GenerateUrls == FlagUrls \cup EnvUrls

\* the value of --database-url on the command line of generate, "" without it
GenerateFlagUrls == {"", "sqlite:./dev.db"}

\* process.exit(1) in generateAction
GenerateExit1(op) ==
    /\ gpc' = "exited"
    /\ exitCode' = 1
    /\ calls' = calls \o <<Call(op, FALSE), Call("process.exit", TRUE)>>

\* what the Prisma and Drizzle generators write before the declarations
GeneratorHeader(o) ==
    IF o = "prisma"
    THEN << <<"generator", "client", "{">>,
            <<INDENT, "provider", "=", "\"prisma-client-js\"">>,
            <<"}">>,
            <<>> >>
    ELSE << <<"import", "{", "pgTable,", "text", "}", "from",
              "\"drizzle-orm/pg-core\"">>,
            <<>> >>

\* generatePrismaSchema / generateDrizzleSchema: the header and one
\* declaration for each table of the schema
generateSchema(o) ==
    GeneratorHeader(o)
        \o TextOf(o,
                  [n \in 1..Len(SchemaTables) |->
                      [name |-> IF o = "prisma"
                                THEN (IF SchemaTables[n] = "user" THEN "User" ELSE "Post")
                                ELSE SchemaTables[n],
                       layout |-> "lines"]],
                  1)

\* generateMigrations: code is "" when the compiled text is ";" alone
generateMigrations(ms) ==
    LET compiled == Compiled(ms)
    IN  IF Trim(compiled) = << <<";">> >> THEN <<>> ELSE compiled

\* filterAuthTables(result.code, options.orm)
Filtered(text, o) ==
    CASE o = "prisma" -> filterPrismaAuthTables(text)
      [] o = "drizzle" -> filterDrizzleAuthTables(text)
      [] o = "kysely" -> filterKyselyAuthTables(text)

InitGenerate ==
    \E o \in Orms, yes \in BOOLEAN, filterAuth \in BOOLEAN,
       flag \in GenerateFlagUrls,
       env \in GenerateUrls, exists \in BOOLEAN, store \in LiveStores :
        /\ generateOptions = [orm |-> o, yes |-> yes, filterAuth |-> filterAuth,
                              databaseUrl |-> flag]
        /\ envUrl = env
        /\ gpc = "parse"
        /\ connectionPool = "null"
        /\ result = [code |-> <<>>, overwrite |-> FALSE]
        /\ conn = [state |-> "none", type |-> "none"]
        /\ live = store
        /\ outFile = [exists |-> exists,
                      content |-> IF exists THEN << <<"old">> >> ELSE <<>>]
        /\ exitCode = -1
        /\ calls = <<>>
        /\ liveBefore = store
        /\ fileBefore = outFile
        /\ options = <<>>
        /\ mpc = "idle"
        /\ cleanup = "null"
        /\ migrations = <<>>
        /\ toBeCreated = {}
        /\ toBeAdded = {}
        /\ sql = <<>>
        /\ runOptions = <<>>
        /\ rpc = <<>>
        /\ tempConfig = ""
        /\ generatedFrom = <<>>
        /\ runExit = <<>>

\* the options that generateCommand declares: --config, --output, --orm,
\* --cwd, --yes and --filter-auth
DeclaredOptions == {"config", "output", "orm", "cwd", "yes", "filterAuth"}

\* program.parse(): an option the command does not declare is an error that
\* ends the process before the action is called
GenerateParse ==
    /\ gpc = "parse"
    /\ IF generateOptions.databaseUrl # "" /\ "databaseUrl" \notin DeclaredOptions
       THEN GenerateExit1("parse")
       ELSE /\ gpc' = "loadSchema"
            /\ UNCHANGED <<exitCode, calls>>
    /\ UNCHANGED <<generateOptions, connectionPool, result, envUrl, conn, live,
                   outFile>>

\* 1.-4. the schema file is found, loaded with jiti and is a defineDb() result
GenerateLoadSchema ==
    /\ gpc = "loadSchema"
    /\ \E loaded \in BOOLEAN :
          IF loaded
          THEN /\ gpc' = "adapter"
               /\ calls' = Append(calls, Call("loadSchema", TRUE))
               /\ UNCHANGED exitCode
          ELSE GenerateExit1("loadSchema")
    /\ UNCHANGED <<generateOptions, connectionPool, result, envUrl, conn, live,
                   outFile>>

\* 5. the adapter of the ORM; for kysely the connection that DATABASE_URL
\*    names: a pool for Postgres and MySQL, a database file otherwise
CreateAdapter ==
    /\ gpc = "adapter"
    /\ IF generateOptions.orm # "kysely"
       THEN /\ gpc' = "generate"
            /\ UNCHANGED <<conn, connectionPool, exitCode, calls>>
       ELSE IF envUrl = ""
       THEN /\ GenerateExit1("databaseUrl")
            /\ UNCHANGED <<conn, connectionPool>>
       ELSE \E outcome \in {"ok", "ERR_MODULE_NOT_FOUND", "error"} :
          CASE outcome = "ok" ->
                 /\ conn' = [state |-> "open", type |-> BranchOf(envUrl)]
                 /\ connectionPool' = IF BranchOf(envUrl) = "sqlite"
                                      THEN "null" ELSE "set"
                 /\ gpc' = "generate"
                 /\ calls' = Append(calls, Call("createDatabaseConnection", TRUE))
                 /\ UNCHANGED exitCode
            [] outcome = "ERR_MODULE_NOT_FOUND" ->
                 /\ GenerateExit1("createDatabaseConnection")
                 /\ UNCHANGED <<conn, connectionPool>>
            [] outcome = "error" ->
                 /\ gpc' = "rejected"
                 /\ exitCode' = 1
                 /\ calls' = Append(calls, Call("createDatabaseConnection", FALSE))
                 /\ UNCHANGED <<conn, connectionPool>>
    /\ UNCHANGED <<generateOptions, result, envUrl, live, outFile>>

\* if (connectionPool) await connectionPool.end()
PoolEnd(cs) ==
    IF connectionPool = "set" THEN Append(cs, Call("cleanup", TRUE)) ELSE cs

PoolEnded ==
    IF connectionPool = "set" THEN [conn EXCEPT !.state = "closed"] ELSE conn

\* the calls of the generator: generateMigrations starts with getMigrations
GeneratorCalls(ok) ==
    IF generateOptions.orm = "kysely"
    THEN <<Call("getMigrations", ok), Call("generate", ok)>>
    ELSE <<Call("generate", ok)>>

\* a command that went on to write after the generator threw
WriteAfterGenerationError == "writeFile"

\* where control goes when the generator throws: the pool is ended and the
\* process exits
AfterGenerationError == "exited"

\* 6.-9. the generator of the ORM, the check that there is code, the filter
Generate ==
    /\ gpc = "generate"
    /\ \E generated \in BOOLEAN :
          IF ~generated
          THEN /\ gpc' = AfterGenerationError
               /\ exitCode' = 1
               /\ conn' = PoolEnded
               /\ calls' = Append(PoolEnd(calls \o GeneratorCalls(FALSE)),
                                  Call("process.exit", TRUE))
               /\ UNCHANGED result
          ELSE LET o == generateOptions.orm
                   text == IF o = "kysely"
                           THEN generateMigrations(Statements("alter", 1)
                                                      \o Statements("create", 1))
                           ELSE generateSchema(o)
                   overwrite == o # "kysely" /\ outFile.exists
               IN  IF text = <<>>
                   THEN /\ result' = [code |-> text, overwrite |-> overwrite]
                        /\ conn' = PoolEnded
                        /\ calls' = PoolEnd(calls \o GeneratorCalls(TRUE))
                        /\ gpc' = "returned"
                        /\ exitCode' = 0
                   ELSE /\ result' = [code |-> IF generateOptions.filterAuth
                                               THEN Filtered(text, o) ELSE text,
                                      overwrite |-> overwrite]
                        /\ calls' = calls \o GeneratorCalls(TRUE)
                        /\ gpc' = IF overwrite /\ ~generateOptions.yes
                                  THEN "overwrite" ELSE "writeFile"
                        /\ UNCHANGED <<conn, exitCode>>
    /\ UNCHANGED <<generateOptions, connectionPool, envUrl, live, outFile>>

\* 10. prompts({ message: "File ... already exists. Overwrite?" })
GenerateOverwritePrompt ==
    /\ gpc = "overwrite"
    /\ \E continue \in BOOLEAN :
          IF continue
          THEN /\ calls' = Append(calls, Call("prompts", TRUE))
               /\ gpc' = "writeFile"
               /\ UNCHANGED <<conn, exitCode>>
          ELSE /\ calls' = PoolEnd(Append(calls, Call("prompts", FALSE)))
               /\ conn' = PoolEnded
               /\ gpc' = "returned"
               /\ exitCode' = 0
    /\ UNCHANGED <<generateOptions, connectionPool, result, envUrl, live, outFile>>

\* 11.-13. fs.writeFile(outputPath, result.code, "utf8"), then the pool is
\*     ended; an error of writeFile is not caught
GenerateWriteFile ==
    /\ gpc = "writeFile"
    /\ \E written \in BOOLEAN :
          IF written
          THEN /\ outFile' = [exists |-> TRUE, content |-> result.code]
               /\ calls' = PoolEnd(Append(calls, Call("writeFile", TRUE)))
               /\ conn' = PoolEnded
               /\ gpc' = "returned"
               /\ exitCode' = 0
          ELSE /\ calls' = Append(calls, Call("writeFile", FALSE))
               /\ gpc' = "rejected"
               /\ exitCode' = 1
               /\ UNCHANGED <<outFile, conn>>
    /\ UNCHANGED <<generateOptions, connectionPool, result, envUrl, live>>

\* the steps of one run; they change no other part of the state
generateAction ==
    \/ GenerateParse /\ UNCHANGED <<mergeVars, filterVars, startVars, migrateLocals, forwardVars, tableVars>>
    \/ GenerateLoadSchema /\ UNCHANGED <<mergeVars, filterVars, startVars, migrateLocals, forwardVars, tableVars>>
    \/ CreateAdapter /\ UNCHANGED <<mergeVars, filterVars, startVars, migrateLocals, forwardVars, tableVars>>
    \/ Generate /\ UNCHANGED <<mergeVars, filterVars, startVars, migrateLocals, forwardVars, tableVars>>
    \/ GenerateOverwritePrompt /\ UNCHANGED <<mergeVars, filterVars, startVars, migrateLocals, forwardVars, tableVars>>
    \/ GenerateWriteFile /\ UNCHANGED <<mergeVars, filterVars, startVars, migrateLocals, forwardVars, tableVars>>

\* one run of generate alone
StartGenerate == InitGenerate /\ MergeIdle /\ FilterIdle /\ TableIdle

SpecGenerate == StartGenerate /\ [][generateAction]_vars

(***************************************************************************)
(* The generate command that forwards to the Better Auth CLI through a     *)
(* temporary config file, run by several processes in one working          *)
(* directory                                                               *)
(***************************************************************************)
Runs == 1 .. MaxRuns

\* the values of --config
SchemaPaths == {"db.ts", "blog.ts"}

\* the invocations: each with its --config, whether that file exists and
\* whether the forwarded CLI works on a config it can load
InitForward ==
    /\ runOptions \in [Runs -> [config : SchemaPaths, exists : BOOLEAN,
                                execOk : BOOLEAN]]
    /\ rpc = [p \in Runs |-> "fileExists"]
    /\ tempConfig = ""
    /\ generatedFrom = [p \in Runs |-> ""]
    /\ runExit = [p \in Runs |-> -1]

\* a missing schema file is reported and the function returns
FileExists(p) ==
    /\ rpc[p] = "fileExists"
    /\ IF runOptions[p].exists
       THEN /\ rpc' = [rpc EXCEPT ![p] = "createTempBetterAuthConfig"]
            /\ runExit' = runExit
       ELSE /\ rpc' = [rpc EXCEPT ![p] = "returned"]
            /\ runExit' = [runExit EXCEPT ![p] = 0]
    /\ UNCHANGED <<runOptions, tempConfig, generatedFrom>>

\* fs.writeFile(tempConfigPath, ...) with tempConfigPath the fixed name
\* .better-db-temp-auth.js under cwd: the text requires the run's schema
createTempBetterAuthConfig(p) ==
    /\ rpc[p] = "createTempBetterAuthConfig"
    /\ tempConfig' = runOptions[p].config
    /\ rpc' = [rpc EXCEPT ![p] = "execAsync"]
    /\ UNCHANGED <<runOptions, generatedFrom, runExit>>

\* npx @better-auth/cli generate --config tempConfigPath: the CLI loads the
\* file at that path and generates from the schema it requires
ExecAsync(p) ==
    /\ rpc[p] = "execAsync"
    /\ generatedFrom' =
          IF tempConfig # "" /\ runOptions[p].execOk
          THEN [generatedFrom EXCEPT ![p] = tempConfig]
          ELSE generatedFrom
    /\ rpc' = [rpc EXCEPT ![p] = "unlink"]
    /\ UNCHANGED <<runOptions, tempConfig, runExit>>

\* finally: fs.unlink(tempConfigPath), its failure ignored; then the function
\* returns, or the catch block ends the process with code 1
Unlink(p) ==
    /\ rpc[p] = "unlink"
    /\ tempConfig' = ""
    /\ IF generatedFrom[p] # ""
       THEN /\ rpc' = [rpc EXCEPT ![p] = "returned"]
            /\ runExit' = [runExit EXCEPT ![p] = 0]
       ELSE /\ rpc' = [rpc EXCEPT ![p] = "exited"]
            /\ runExit' = [runExit EXCEPT ![p] = 1]
    /\ UNCHANGED <<runOptions, generatedFrom>>

forwardAction ==
    \/ /\ \E p \in Runs : FileExists(p)
       /\ UNCHANGED <<mergeVars, filterVars, migrateVars, startVars, generateVars, tableVars>>
    \/ /\ \E p \in Runs : createTempBetterAuthConfig(p)
       /\ UNCHANGED <<mergeVars, filterVars, migrateVars, startVars, generateVars, tableVars>>
    \/ /\ \E p \in Runs : ExecAsync(p)
       /\ UNCHANGED <<mergeVars, filterVars, migrateVars, startVars, generateVars, tableVars>>
    \/ /\ \E p \in Runs : Unlink(p)
       /\ UNCHANGED <<mergeVars, filterVars, migrateVars, startVars, generateVars, tableVars>>

StartForward ==
    /\ InitForward
    /\ MergeIdle
    /\ TableIdle
    /\ FilterIdle
    /\ MigrateIdle
    /\ generateOptions = <<>>
    /\ gpc = "idle"
    /\ connectionPool = "null"
    /\ result = <<>>

SpecForward == StartForward /\ [][forwardAction]_vars

\* one run of one of the two commands
StartCommand == StartMigrate \/ StartGenerate

SpecCommands == StartCommand /\ [][migrateAction \/ generateAction]_vars

(***************************************************************************)
(* Properties of the auth-table filters                                    *)
(***************************************************************************)
\* the reserved table names, in lower case
ReservedNames == {"user", "session", "account", "verification", "ratelimit"}

\* the declared name of a declaration is a reserved name, whatever its case
IsReservedBlock(b) == ToLowerCase(WordOf(b.name)) \in ReservedNames

KeptSet == { keptLines[n] : n \in 1..Len(keptLines) }

\* the table a relation or foreign-key line points at ("" when it is none)
ReferencedTable(line) ==
    IF RelationMatch(line) THEN line[3]
    ELSE IF \E i \in 1..(Len(line) - 2) : line[i] = ".references(()"
    THEN WordOf(line[(CHOOSE i \in 1..(Len(line) - 2) :
                         line[i] = ".references(()") + 2])
    ELSE RefMatch(line)

\* line i points at a reserved table whose declaration the filter removed
PointsAtRemoved(i) ==
    /\ ReferencedTable(code[i]) # ""
    /\ \E n \in DOMAIN blocks :
          /\ IsReservedBlock(blocks[n])
          /\ ToLowerCase(WordOf(blocks[n].name)) = ToLowerCase(ReferencedTable(code[i]))
          /\ blocks[n].first \notin KeptSet

\* the lines of declaration b occur in the text, one after the other
OccursIn(text, b) ==
    \E at \in 0..(Len(text) - (b.last - b.first + 1)) :
        \A j \in 0..(b.last - b.first) : text[at + 1 + j] = code[b.first + j]

\* C6: for each filter and every text of well-formed declarations, no line of
\* a declaration whose declared name is a reserved table, from its header
\* line through the line of its closing delimiter, is in the output.
C6_ReservedBlocksRemoved ==
    fpc = "done" =>
        \A n \in DOMAIN blocks :
            IsReservedBlock(blocks[n]) =>
                \A i \in blocks[n].first..blocks[n].last : i \notin KeptSet

\* C7: in the output of each filter no line of a declaration that is not
\* reserved points at a removed reserved table, whatever line precedes it.
C7_NoDanglingReference ==
    fpc = "done" =>
        \A n \in DOMAIN blocks :
            ~IsReservedBlock(blocks[n]) =>
                \A i \in blocks[n].first..blocks[n].last :
                    PointsAtRemoved(i) => i \notin KeptSet

\* C8: each filter keeps custom tables intact: a declaration whose name is
\* not reserved and which has no reference to a reserved table is in the
\* output with all of its lines in their order, wherever it stands and also
\* when a reserved declaration of the text is written on one line.
C8_CustomTablesIntact ==
    fpc = "done" =>
        \A n \in DOMAIN blocks :
            (/\ ~IsReservedBlock(blocks[n])
             /\ \A i \in blocks[n].first..blocks[n].last :
                   ToLowerCase(ReferencedTable(code[i])) \notin ReservedNames)
            => /\ \A i \in blocks[n].first..blocks[n].last : i \in KeptSet
               /\ OccursIn(output, blocks[n])

\* C9: the reserved names are matched without regard to letter case in all
\* three filters: a declaration is removed whenever its declared name is a
\* reserved name in any mix of upper and lower case.
C9_CaseInsensitiveMatch ==
    fpc = "done" =>
        \A n \in DOMAIN blocks :
            ToLowerCase(WordOf(blocks[n].name)) \in ReservedNames
                => code[blocks[n].first] \notin { output[j] : j \in DOMAIN output }

(***************************************************************************)
(* Properties of the migrate command                                       *)
(***************************************************************************)
\* the calls that open, use or release the connection, in the order of the
\* stages Connected, Introspected, Compiled | Applied, Disconnected
Stage(op) ==
    CASE op = "createDatabaseConnection" -> 1
      [] op = "getMigrations" -> 2
      [] op \in {"compileMigrations", "runMigrations"} -> 3
      [] op = "cleanup" -> 4
      [] OTHER -> 0

\* C10: every run of migrateAction follows Disconnected -> Connected ->
\* Introspected -> {Compiled | Applied} -> Disconnected: getMigrations is
\* called only after createDatabaseConnection returned a connection,
\* compileMigrations or runMigrations only after getMigrations returned, at
\* most one of the two is called, and nothing uses the connection after its
\* cleanup has run.
C10_RunFollowsStages ==
    /\ \A i \in DOMAIN calls : \A j \in DOMAIN calls :
          (i < j /\ Stage(calls[i].op) > 0 /\ Stage(calls[j].op) > 0)
              => Stage(calls[i].op) < Stage(calls[j].op)
    /\ \A j \in DOMAIN calls :
          calls[j].op = "getMigrations" =>
              /\ calls[j].conn = "open"
              /\ \E i \in 1..(j - 1) :
                    calls[i].op = "createDatabaseConnection" /\ calls[i].ok
    /\ \A j \in DOMAIN calls :
          calls[j].op \in {"compileMigrations", "runMigrations"} =>
              \E i \in 1..(j - 1) : calls[i].op = "getMigrations" /\ calls[i].ok

\* a run went through every stage: it connected, introspected, applied the
\* migrations and released the connection
C10_Witness ==
    /\ mpc = "returned"
    /\ [n \in DOMAIN calls |-> calls[n].op]
          = <<"loadBetterDbSchema", "createDatabaseConnection", "getMigrations",
              "prompts", "runMigrations", "cleanup">>
    /\ conn.state = "closed"

\* the run of migrateAction is over: it returned, threw or the process exited
MigrateEnded == mpc \in {"returned", "rejected", "exited"}

Ops == { calls[n].op : n \in DOMAIN calls }

Succeeded(op) == \E n \in DOMAIN calls : calls[n].op = op /\ calls[n].ok

Failed(op) == \E n \in DOMAIN calls : calls[n].op = op /\ ~calls[n].ok

\* C11: every run of migrateAction that obtained a connection releases it
\* before the run ends: the cleanup that createDatabaseConnection returned has
\* run and the underlying connection is closed, on every exit path and for
\* the Postgres, MySQL and SQLite connections alike.
C11_ConnectionReleased ==
    (MigrateEnded /\ Succeeded("createDatabaseConnection"))
        => ("cleanup" \in Ops /\ conn.state = "closed")

\* the live store had every table and column of the schema when the run began
NothingPending ==
    \A n \in DOMAIN SchemaTables :
        /\ SchemaTables[n] \in DOMAIN liveBefore
        /\ SchemaColumns \subseteq liveBefore[SchemaTables[n]]

\* the run of generateAction is over
GenerateEnded == gpc \in {"returned", "rejected", "exited"}

C14_EmptyDeltaIsNoOp ==
    /\ (mpc # "idle" /\ NothingPending /\ Succeeded("getMigrations")) =>
          /\ Ops \cap {"runMigrations", "compileMigrations", "writeFile",
                        "prompts"} = {}
          /\ live = liveBefore
          /\ outFile = fileBefore
          /\ exitCode = 0
          /\ MigrateEnded => mpc = "returned"
    /\ (gpc # "idle" /\ generateOptions.orm = "kysely" /\ NothingPending
            /\ Succeeded("generate")) =>
          /\ result.code = <<>>
          /\ Ops \cap {"writeFile", "prompts"} = {}
          /\ outFile = fileBefore
          /\ gpc = "returned" /\ exitCode = 0

\* a run with --output found nothing pending and returned
C14_Witness ==
    /\ mpc = "returned"
    /\ NothingPending
    /\ Succeeded("getMigrations")
    /\ options.output /\ options.yes

\* C15: generateAction with --filter-auth never writes an empty artifact: when
\* the text left after filtering is empty the command treats it as nothing to
\* do and neither creates nor modifies the output file.
C15_NoEmptyArtifact ==
    (/\ gpc # "idle"
     /\ generateOptions.filterAuth
     /\ Succeeded("generate")
     /\ result.code = <<>>)
    => /\ "writeFile" \notin Ops
       /\ outFile = fileBefore
       /\ GenerateEnded => (gpc = "returned" /\ exitCode = 0)

\* the tables of the schema that the live store lacked, or lacked a column
\* of, when the run began
PendingTables ==
    { SchemaTables[n] : n \in { i \in DOMAIN SchemaTables :
          \/ SchemaTables[i] \notin DOMAIN liveBefore
          \/ ~(SchemaColumns \subseteq liveBefore[SchemaTables[i]]) } }

\* C16: migrateAction with --output and --filter-auth writes no file when
\* nothing remains for custom tables: if every pending table and column
\* belongs to a reserved table, or the compiled SQL is empty or only ";"
\* after filtering, the run ends successfully and the output path is neither
\* created nor modified.
C16_NoFileWhenOnlyReserved ==
    (/\ mpc # "idle"
     /\ options.output /\ options.filterAuth
     /\ Succeeded("getMigrations")
     /\ \/ PendingTables \subseteq ReservedNames
        \/ Succeeded("compileMigrations") /\ sql \in {<<>>, << <<";">> >>})
    => /\ "writeFile" \notin Ops
       /\ outFile = fileBefore
       /\ exitCode = 0
       /\ MigrateEnded => mpc = "returned"

\* only the reserved table user was pending and the run returned
C16_Witness ==
    /\ mpc = "returned"
    /\ options.output /\ options.filterAuth
    /\ PendingTables = {"user"}
    /\ ~fileBefore.exists

\* C17: given --output, migrateAction generates SQL to the file instead of
\* running migrations: runMigrations is called on no path of such a run, the
\* live store is not modified, and the only effect is at most one write of
\* the compiled SQL to the output path.
C17_OutputNeverRuns ==
    (mpc # "idle" /\ options.output) =>
        /\ "runMigrations" \notin Ops
        /\ live = liveBefore
        /\ Cardinality({ n \in DOMAIN calls : calls[n].op = "writeFile" }) <= 1
        /\ \/ outFile = fileBefore
           \/ /\ Succeeded("writeFile")
              /\ outFile = [exists |-> TRUE, content |-> Trim(sql)]

\* a run with --output wrote the SQL of a pending delta and returned
C17_Witness ==
    /\ mpc = "returned"
    /\ options.output
    /\ Succeeded("writeFile")
    /\ migrations # <<>>
    /\ outFile # fileBefore

\* the connection string the running command uses
UsedUrl ==
    IF mpc # "idle"
    THEN (IF options.databaseUrl # "" THEN options.databaseUrl ELSE envUrl)
    ELSE envUrl

\* the scheme is postgres://, postgresql://, mysql:// or sqlite:
Recognized(url) ==
    url \in {"postgres://h/db", "postgresql://h/db", "mysql://h/db",
             "sqlite:./dev.db"}

\* C18: createDatabaseConnection fails with a connection error for every
\* connection string whose scheme is not one of the recognized families: no
\* database is opened or created for an unrecognized scheme.
C18_UnrecognizedSchemeFails ==
    (UsedUrl # "" /\ ~Recognized(UsedUrl)) =>
        /\ ~Succeeded("createDatabaseConnection")
        /\ conn.state = "none"

\* the SQL target is used and there is no connection string
NoConnectionString ==
    \/ mpc # "idle" /\ options.databaseUrl = "" /\ envUrl = ""
    \/ /\ gpc # "idle" /\ generateOptions.orm = "kysely"
       /\ generateOptions.databaseUrl = "" /\ envUrl = ""

\* C19: with the SQL (kysely) target and no connection string, generate and
\* migrate stop with a non-zero exit before any connection is opened, before
\* any introspection and before any file is written; they never fall back to
\* a default database.
C19_NoUrlStopsEarly ==
    NoConnectionString =>
        /\ Ops \cap {"createDatabaseConnection", "getMigrations", "generate",
                      "compileMigrations", "runMigrations", "writeFile"} = {}
        /\ conn.state = "none"
        /\ outFile = fileBefore
        /\ live = liveBefore
        /\ (MigrateEnded \/ GenerateEnded) => exitCode = 1

\* migrate stopped at the missing connection string
C19_Witness ==
    /\ mpc = "exited"
    /\ options.databaseUrl = "" /\ envUrl = ""
    /\ Failed("databaseUrl")

\* C20: when generation fails outright in generateAction (schema loading,
\* connection setup or the generator itself fails) no write to the output
\* path happens on that run: the file is neither created nor modified.
C20_FailedGenerationWritesNothing ==
    (/\ gpc # "idle"
     /\ \/ Failed("loadSchema")
        \/ Failed("databaseUrl")
        \/ Failed("createDatabaseConnection")
        \/ Failed("generate"))
    => /\ "writeFile" \notin Ops
       /\ outFile = fileBefore

\* the generator failed on a run whose output file existed
C20_Witness ==
    /\ gpc = "exited"
    /\ Failed("generate")
    /\ fileBefore.exists

\* a run of the forwarding generateAction has ended
RunEnded(p) == rpc[p] \in {"returned", "exited"}

\* some step of the command failed; a declined prompt is an answer
SomeFailure == \E n \in DOMAIN calls : calls[n].op # "prompts" /\ ~calls[n].ok

\* C21: generateAction and migrateAction end with a non-zero exit code on
\* every error path (schema file missing or invalid, no connection string,
\* missing driver or failed connection, failure to prepare, compile, generate
\* or apply) and with zero on success and when there is nothing to do.
C21_ExitCodes ==
    /\ MigrateEnded => exitCode = (IF SomeFailure THEN 1 ELSE 0)
    /\ GenerateEnded => exitCode = (IF SomeFailure THEN 1 ELSE 0)
    /\ \A p \in DOMAIN rpc :
          RunEnded(p) =>
              runExit[p] = (IF runOptions[p].exists /\ generatedFrom[p] # ""
                            THEN 0 ELSE 1)

\* the fields of the returned table that are named id
IdentityFields == { i \in 1..Len(dbTable.fields) : dbTable.fields[i].name = "id" }

Attr(field, key) == IF key \in DOMAIN field.attr THEN field.attr[key] ELSE FALSE

\* C22: every table that table() returns has exactly one identity field named
\* id, of type string or number, required and unique, whether the declaration
\* listed it or not.
C22_OneIdentityField ==
    tpc = "returned" =>
        /\ Cardinality(IdentityFields) = 1
        /\ \A i \in IdentityFields :
              /\ dbTable.fields[i].attr.type \in {"string", "number"}
              /\ Attr(dbTable.fields[i], "required") = TRUE
              /\ Attr(dbTable.fields[i], "unique") = TRUE

\* the declaration with id: { type: string, required: true, unique: true }
\* put before its fields
WithExplicitId(decl) ==
    <<[name |-> "id", builder |-> Unique(FactoryId)]>> \o decl

\* C23: a table declared without id is structurally identical to the table
\* declared with an explicit id { type: string, required: true, unique: true }
\* as its first field: the synthesized id is exactly that field and comes
\* first in insertion order.
C23_SynthesisIsExplicitId ==
    (tpc \in {"returned", "threw"} /\ ~Declared(fieldBuilders, "id")) =>
        /\ tpc = "returned"
        /\ ~Throws(revision, WithExplicitId(fieldBuilders))
        /\ dbTable.fields = TableFields(revision, WithExplicitId(fieldBuilders))
        /\ dbTable.fields[1] =
              [name |-> "id",
               attr |-> [type |-> "string", required |-> TRUE, unique |-> TRUE]]

\* a declared field named id carries a reference
IdHasReference(decl) ==
    \E i \in 1..Len(decl) :
        decl[i].name = "id" /\ "references" \in DOMAIN decl[i].builder.config

\* C24: table() fails exactly when a declared field named id also carries a
\* reference; a declared id without a reference is accepted as declared.
C24_FailsOnlyOnReferencingId ==
    /\ tpc = "threw" => IdHasReference(fieldBuilders)
    /\ tpc = "returned" =>
          /\ ~IdHasReference(fieldBuilders)
          /\ \A i \in 1..Len(fieldBuilders) :
                fieldBuilders[i].name = "id" =>
                    \E j \in 1..Len(dbTable.fields) :
                        dbTable.fields[j] =
                            [name |-> "id",
                             attr |-> Build(fieldBuilders[i].builder)]

\* what a run produces when no other run shares its working directory
AloneGeneratedFrom(p) ==
    IF runOptions[p].exists /\ runOptions[p].execOk
    THEN runOptions[p].config ELSE ""

AloneExit(p) ==
    IF runOptions[p].exists /\ ~runOptions[p].execOk THEN 1 ELSE 0

\* C25: invocations of generate that run at the same time share no mutable
\* state: between writing its temporary config and handing it to the CLI a
\* run finds the file as it wrote it (no other run has overwritten or deleted
\* it), the CLI it starts reads its own config, and each run ends with the
\* result it has when it runs alone.
C25_RunsDoNotInterfere ==
    \A p \in DOMAIN rpc :
        /\ rpc[p] = "execAsync" => tempConfig = runOptions[p].config
        /\ generatedFrom[p] \in {"", runOptions[p].config}
        /\ RunEnded(p) =>
              /\ generatedFrom[p] = AloneGeneratedFrom(p)
              /\ runExit[p] = AloneExit(p)

\* C26: generate for the kysely target accepts --database-url, and the value
\* of the flag has priority over DATABASE_URL: the run is not refused for the
\* flag, and the connection it opens is the one the flag names.
C26_FlagOverridesEnv ==
    (gpc # "idle" /\ generateOptions.orm = "kysely"
        /\ generateOptions.databaseUrl # "") =>
        /\ ~Failed("parse")
        /\ conn.state # "none" =>
              conn.type = BranchOf(generateOptions.databaseUrl)

\* the tables of the live store that the run created or added a column to
ChangedTables ==
    { t \in DOMAIN live : t \notin DOMAIN liveBefore \/ live[t] # liveBefore[t] }

\* C27: with --filter-auth and without --output migrateAction applies exactly
\* the pending changes it lists: the tables it changes are the listed ones,
\* and it neither creates a reserved table nor adds a column to one.
C27_FilteredApplySkipsReserved ==
    (mpc # "idle" /\ options.filterAuth /\ ~options.output) =>
        /\ \A t \in ChangedTables : ToLowerCase(t) \notin DEFAULT_AUTH_TABLES
        /\ Succeeded("runMigrations") =>
              ChangedTables = toBeCreated \cup toBeAdded

\* --yes was given to the command that runs
YesGiven == IF mpc # "idle" THEN options.yes ELSE generateOptions.yes

\* C28: an output file that exists is overwritten, by generateAction and by
\* migrateAction with --output and for each target, only with --yes or after
\* an affirmative answer to the prompt; after a declined prompt the file is
\* unchanged and the run ends without error.
C28_OverwriteNeedsConsent ==
    /\ (fileBefore # <<>> /\ fileBefore.exists /\ outFile # fileBefore) =>
          (YesGiven \/ Succeeded("prompts"))
    /\ (Failed("prompts") /\ (mpc = "idle" \/ options.output)) =>
          /\ outFile = fileBefore
          /\ (MigrateEnded \/ GenerateEnded) => exitCode = 0

C13_AdditiveOnly ==
    /\ \A n \in DOMAIN migrations :
          /\ migrations[n].kind \in {"create", "alter"}
          /\ migrations[n].kind = "create" <=> migrations[n].table \notin DOMAIN liveBefore
    /\ \A t \in DOMAIN liveBefore :
          t \in DOMAIN live /\ liveBefore[t] \subseteq live[t]

\* a run created a table and added a column next to the legacy table and to
\* a column the registry does not have
C13_Witness ==
    /\ Succeeded("runMigrations")
    /\ Legacy \in DOMAIN live
    /\ \E t \in DOMAIN live : t \notin DOMAIN liveBefore
    /\ \E t \in DOMAIN liveBefore :
          "extra" \in live[t] /\ live[t] # liveBefore[t]

(***************************************************************************)
(* Properties of the plugin merge                                          *)
(***************************************************************************)
Front(q) == SubSeq(q, 1, Len(q) - 1)

Last(q) == q[Len(q)]

Derived == DOMAIN registries \ {<<>>}

SchemaOfReg(q) == Deep(registries[q].schema)

SchemaOfPlugin(p) == Deep(plugins[p].schema)

\* the field maps of a schema value, table by table
FieldsOf(value) == [k \in DOMAIN value |-> value[k].fields]

\* C1: use(plugin) is the overlay merge of the receiver's schema and the
\* plugin's tables: a key on one side only keeps that side's fields; on a key
\* of both sides the field names are the union, a field of both sides has the
\* plugin's definition and a field of the base only keeps the base's.
C1_UseIsOverlayMerge ==
    \A q \in Derived :
        LET B == FieldsOf(SchemaOfReg(Front(q)))
            P == FieldsOf(SchemaOfPlugin(Last(q)))
            R == FieldsOf(SchemaOfReg(q))
        IN  /\ DOMAIN R = DOMAIN B \cup DOMAIN P
            /\ \A k \in DOMAIN B \ DOMAIN P : R[k] = B[k]
            /\ \A k \in DOMAIN P \ DOMAIN B : R[k] = P[k]
            /\ \A k \in DOMAIN B \cap DOMAIN P :
                  /\ DOMAIN R[k] = DOMAIN B[k] \cup DOMAIN P[k]
                  /\ \A f \in DOMAIN P[k] : R[k][f] = P[k][f]
                  /\ \A f \in DOMAIN B[k] \ DOMAIN P[k] : R[k][f] = B[k][f]

\* a merge in which a table of both sides has a field redefined by the plugin,
\* a field kept from the base, and the plugin brings a table of its own
C1_Witness ==
    \E q \in Derived :
        LET B == FieldsOf(SchemaOfReg(Front(q)))
            P == FieldsOf(SchemaOfPlugin(Last(q)))
            R == FieldsOf(SchemaOfReg(q))
        IN  /\ DOMAIN P \ DOMAIN B # {}
            /\ \E k \in DOMAIN B \cap DOMAIN P :
                  /\ \E f \in DOMAIN B[k] \cap DOMAIN P[k] :
                        B[k][f] # P[k][f] /\ R[k][f] = P[k][f]
                  /\ DOMAIN B[k] \ DOMAIN P[k] # {}

\* C2: use(plugin) never mutates its inputs: across every step, every
\* registry that exists keeps its table keys, field names and definitions,
\* and every plugin keeps its table set.
C2_UseMutatesNoInput ==
    [][ /\ \A q \in DOMAIN registries :
              /\ registries'[q] = registries[q]
              /\ [k \in DOMAIN schemas'[registries[q].schema] |->
                     tables'[schemas'[registries[q].schema][k]]]
                 = SchemaOfReg(q)
        /\ \A p \in DOMAIN plugins :
              /\ plugins'[p] = plugins[p]
              /\ [k \in DOMAIN schemas'[plugins[p].schema] |->
                     tables'[schemas'[plugins[p].schema][k]]]
                 = SchemaOfPlugin(p)
      ]_vars

\* two chains branch from the base registry and one of them was extended
C2_Witness ==
    /\ {<<1>>, <<2>>, <<1, 2>>, <<2, 2>>} \subseteq DOMAIN registries
    /\ SchemaOfReg(<<1>>) # SchemaOfReg(<<>>)
    /\ SchemaOfReg(<<1, 2>>) # SchemaOfReg(<<1>>)

\* the definition a sequence of plugins gives to field f of table k: that of
\* the last plugin of the sequence that defines it, else that of the base
RECURSIVE LastDefinition(_, _, _)
LastDefinition(q, k, f) ==
    IF q = <<>>
    THEN FieldsOf(SchemaOfReg(<<>>))[k][f]
    ELSE LET P == FieldsOf(SchemaOfPlugin(Last(q)))
         IN  IF k \in DOMAIN P /\ f \in DOMAIN P[k]
             THEN P[k][f]
             ELSE LastDefinition(Front(q), k, f)

\* the fields some plugin of the sequence, or the base, defines in table k
RECURSIVE DefinedFields(_, _)
DefinedFields(q, k) ==
    IF q = <<>>
    THEN LET B == FieldsOf(SchemaOfReg(<<>>))
         IN  IF k \in DOMAIN B THEN DOMAIN B[k] ELSE {}
    ELSE LET P == FieldsOf(SchemaOfPlugin(Last(q)))
         IN  (IF k \in DOMAIN P THEN DOMAIN P[k] ELSE {})
                \cup DefinedFields(Front(q), k)

\* C3: after any sequence of use() calls, a field's definition in the final
\* registry is the one of the last plugin of the sequence that defines it in
\* that table, or the base's when no plugin does; so two plugins that define
\* one field differently give different registries in the two orders.
C3_LastPluginWins ==
    /\ \A q \in DOMAIN registries :
          LET R == FieldsOf(SchemaOfReg(q))
          IN  \A k \in DOMAIN R :
                 /\ DOMAIN R[k] = DefinedFields(q, k)
                 /\ \A f \in DOMAIN R[k] : R[k][f] = LastDefinition(q, k, f)
    /\ \A q \in DOMAIN registries :
          (/\ Len(q) = 2
           /\ <<q[2], q[1]>> \in DOMAIN registries
           /\ \E k \in TableKeys :
                 LET P1 == FieldsOf(SchemaOfPlugin(q[1]))
                     P2 == FieldsOf(SchemaOfPlugin(q[2]))
                 IN  /\ k \in DOMAIN P1 \cap DOMAIN P2
                     /\ \E f \in DOMAIN P1[k] \cap DOMAIN P2[k] :
                           P1[k][f] # P2[k][f])
          => SchemaOfReg(q) # SchemaOfReg(<<q[2], q[1]>>)

\* both orders of two plugins that define the same field differently
C3_Witness ==
    /\ {<<1, 2>>, <<2, 1>>} \subseteq DOMAIN registries
    /\ \E k \in DOMAIN SchemaOfPlugin(1) \cap DOMAIN SchemaOfPlugin(2) :
          \E f \in DOMAIN SchemaOfPlugin(1)[k].fields
                      \cap DOMAIN SchemaOfPlugin(2)[k].fields :
             /\ SchemaOfPlugin(1)[k].fields[f] # SchemaOfPlugin(2)[k].fields[f]
             /\ SchemaOfReg(<<1, 2>>)[k].fields[f] = SchemaOfPlugin(2)[k].fields[f]
             /\ SchemaOfReg(<<2, 1>>)[k].fields[f] = SchemaOfPlugin(1)[k].fields[f]

\* C4: no Table object is shared by reference between registries: after
\* r2 = r1.use(p), no table object reachable from r2.getSchema() is a table
\* object of r1.getSchema() or of p's table set.
C4_NoSharedTableObject ==
    \A q \in Derived :
        /\ TableObjects(registries[q].schema)
              \cap TableObjects(registries[Front(q)].schema) = {}
        /\ TableObjects(registries[q].schema)
              \cap TableObjects(plugins[Last(q)].schema) = {}

\* C5: for two plugins whose table keys are disjoint, B.use(P1).use(P2) and
\* B.use(P2).use(P1) have the same table keys and, table by table, the same
\* field names with the same definitions.
C5_DisjointPluginsCommute ==
    \A p1 \in DOMAIN plugins : \A p2 \in DOMAIN plugins :
        (/\ DOMAIN SchemaOfPlugin(p1) \cap DOMAIN SchemaOfPlugin(p2) = {}
         /\ <<p1, p2>> \in DOMAIN registries
         /\ <<p2, p1>> \in DOMAIN registries)
        => FieldsOf(SchemaOfReg(<<p1, p2>>)) = FieldsOf(SchemaOfReg(<<p2, p1>>))

\* both orders of two disjoint plugins were applied to a base that has tables
C5_Witness ==
    /\ DOMAIN SchemaOfPlugin(1) \cap DOMAIN SchemaOfPlugin(2) = {}
    /\ {<<1, 2>>, <<2, 1>>} \subseteq DOMAIN registries
    /\ DOMAIN SchemaOfReg(<<>>) \cap DOMAIN SchemaOfPlugin(1) # {}
    /\ SchemaOfReg(<<1, 2>>) # SchemaOfReg(<<1>>)

====
